---- MODULE Spec2Model ----
(***************************************************************************)
(* Model of src/src/pika_utils.py: the BlockingConnectionAdapter, the      *)
(* BasicPikaPublisher, the BasicPikaConsumer and the module-level topology *)
(* functions, run against an AMQP 0-9-1 broker.                            *)
(*                                                                         *)
(* The program is single threaded: one caller invokes one operation at a   *)
(* time, and Consumer.run() blocks that caller inside the consume loop.    *)
(* The broker may close a channel or the connection at any moment.         *)
(*                                                                         *)
(* Names used but not imported by the file (pika, PREFETCH_COUNT,          *)
(* ChannelClosedByBroker) are read with their pika meaning.                *)
(***************************************************************************)
EXTENDS Integers, Sequences, FiniteSets, TLC

\* ------------------------------------------------------------------ bounds
\* Channel objects alive at once (open on the broker, or held by the adapter).
MaxChans == 2
\* Connections the adapter ever creates.
MaxConns == 2
\* Messages a queue holds.
MaxQLen == 1
\* Most deliveries a channel makes (its delivery tags are 1..MaxDeliveries).
MaxDeliveries == 2

\* The adapter's prefetch count (quality of service).
PREFETCH_COUNT == 1

ExchangeNames == {"ex1"}
QueueNames == {"q1"}
RoutingKeys == {"rk1"}
\* Payloads a caller hands to the publisher: bytes, a dict, a dict holding a
\* value json.dumps cannot serialize, anything else.
Payloads == {"bytes", "dict", "dict_unserializable", "other"}

ChanIds == 1..MaxChans
\* What a handler does with a delivery: ack, nack, or neither.
Handlers == {"ack", "nack", "none"}

VARIABLES
    connOpen,    \* connOpen[c]: connection object c reports is_open
    chans,       \* channel objects: id -> [conn, open, prefetch, by, tag,
                 \* unacked] (last delivery tag, deliveries awaiting an ack)
    exchanges,   \* broker: the exchanges that exist
    queues,      \* broker: the queues that exist
    contents,    \* broker: contents[q], the messages queue q holds
    bindings,    \* broker: set of <<exchange, queue, routing_key>>
    adapter,     \* BlockingConnectionAdapter: [connection, channel]
    publisher,   \* BasicPikaPublisher: [exchange, queue, routing_key]
    consumer,    \* BasicPikaConsumer: [queue, state, guarded] and, of the
                 \* run under way, [handled, acked] (delivery tags)
    ret          \* the last operation and its outcome

vars == <<connOpen, chans, exchanges, queues, contents, bindings,
          adapter, publisher, consumer, ret>>

\* --------------------------------------------------------- the world record
\* The connection, channel and broker state, threaded through the functions,
\* and the Basic.Publish frames the operation under way has sent (wire).
World ==
    [connOpen |-> connOpen, chans |-> chans, exchanges |-> exchanges,
     queues |-> queues, contents |-> contents, bindings |-> bindings,
     wire |-> <<>>]

SetWorld(w) ==
    /\ connOpen' = w.connOpen
    /\ chans' = w.chans
    /\ exchanges' = w.exchanges
    /\ queues' = w.queues
    /\ contents' = w.contents
    /\ bindings' = w.bindings

\* A function's outcome: the world after it, the exception it raised ("none"
\* when it returned), its return value, the channel it returned (0: none) and
\* the number of Basic.Publish frames it sent.
Out(w, exc, res, ch, sent) ==
    [w |-> w, exc |-> exc, res |-> res, ch |-> ch, sent |-> sent]

FreeChans(w) == ChanIds \ DOMAIN w.chans

\* The next channel object: the smallest identity not in use.
NewChan(w) == CHOOSE n \in FreeChans(w) : \A m \in FreeChans(w) : n <= m

IsOpen(w, ch) == ch \in DOMAIN w.chans /\ w.chans[ch].open

OpenChans(w) == {c \in DOMAIN w.chans : w.chans[c].open}

\* A local variable going out of scope: a closed channel nobody else holds is
\* garbage; an open one stays registered with its connection.
Drop(w, ch) ==
    IF ch \in DOMAIN w.chans /\ ~w.chans[ch].open
    THEN [w EXCEPT !.chans = [c \in DOMAIN w.chans \ {ch} |-> w.chans[c]]]
    ELSE w

\* The channel objects still referenced: the open ones and the adapter's.
Collect(w, a) ==
    [w EXCEPT !.chans =
        [c \in {d \in DOMAIN w.chans : w.chans[d].open \/ d = a.channel}
            |-> w.chans[c]]]

\* The bodies of the deliveries in s that came from queue q, in order.
BodiesOf(s, q) ==
    [i \in 1..Len(SelectSeq(s, LAMBDA m : m.queue = q)) |->
        SelectSeq(s, LAMBDA m : m.queue = q)[i].body]

\* The broker puts the deliveries of channel ch that were not acknowledged
\* back at the head of their queues.
Requeued(w, ch) ==
    [w EXCEPT !.contents =
                 [q \in QueueNames |->
                     IF q \in w.queues
                     THEN BodiesOf(w.chans[ch].unacked, q) \o w.contents[q]
                     ELSE w.contents[q]],
              !.chans = [w.chans EXCEPT ![ch].unacked = <<>>]]

\* The broker (or the peer) closes channel ch: what it had delivered on ch
\* without an acknowledgement is queued again.
ChannelClosedBy(w, ch) ==
    [Requeued(w, ch) EXCEPT !.chans = [@ EXCEPT ![ch].open = FALSE]]

\* The channels in cs closed one after the other, in the order of their
\* numbers.
RECURSIVE ChannelsClosedBy(_, _)
ChannelsClosedBy(w, cs) ==
    IF cs = {} THEN w
    ELSE ChannelsClosedBy(
            ChannelClosedBy(w, CHOOSE c \in cs : \A d \in cs : c <= d),
            cs \ {CHOOSE c \in cs : \A d \in cs : c <= d})

\* ------------------------------------------------- channels and connections
\* A function that continues with the outcome of a call takes that outcome as
\* its first parameter: name_ch(o, ...) is the rest of name(...) after the
\* call whose outcome is o.

\* connection.channel(): channel object n, open on the connection, with the
\* broker's default prefetch (0: no limit) in effect.
NewChannelOn(w, connection, n) ==
    Out([w EXCEPT !.chans =
            [c \in DOMAIN w.chans \cup {n} |->
                IF c = n
                THEN [conn |-> connection, open |-> TRUE,
                      prefetch |-> 0, by |-> "function",
                      tag |-> 0, unacked |-> <<>>]
                ELSE w.chans[c]]],
        "none", "channel", n, 0)

\* open_channel_from_connection: a new channel on an open connection,
\* PikaUtilsError on a closed one.
open_channel_from_connection(w, connection) ==
    IF w.connOpen[connection]
    THEN NewChannelOn(w, connection, NewChan(w))
    ELSE Out(w, "PikaUtilsError", "None", 0, 0)

\* A close_channel that reports True whatever it found.
close_channel_reports_true(w, channel) ==
    IF IsOpen(w, channel)
    THEN Out(ChannelClosedBy(w, channel), "none", "True", 0, 0)
    ELSE Out(w, "none", "True", 0, 0)

\* close_channel: closes an open channel and reports True, else False.
close_channel(w, channel) ==
    IF IsOpen(w, channel)
    THEN Out(ChannelClosedBy(w, channel), "none", "True", 0, 0)
    ELSE Out(w, "none", "False", 0, 0)

\* A connection that closes takes its channels with it.
ConnectionClosedBy(w, connection) ==
    [ChannelsClosedBy(w, {c \in DOMAIN w.chans :
                             w.chans[c].conn = connection /\ w.chans[c].open})
        EXCEPT !.connOpen = [w.connOpen EXCEPT ![connection] = FALSE]]

\* close_connection: closes an open connection and reports True, else False.
close_connection(w, connection) ==
    IF w.connOpen[connection]
    THEN Out(ConnectionClosedBy(w, connection), "none", "True", 0, 0)
    ELSE Out(w, "none", "False", 0, 0)

\* A set_channel_qos that does nothing on a closed channel.
set_channel_qos_silent(w, channel, prefetch_count) ==
    IF IsOpen(w, channel)
    THEN Out([w EXCEPT !.chans =
                 [w.chans EXCEPT ![channel].prefetch = prefetch_count]],
             "none", "True", 0, 0)
    ELSE Out(w, "none", "None", 0, 0)

\* set_channel_qos: basic_qos on an open channel, PikaUtilsError on a closed one.
set_channel_qos(w, channel, prefetch_count) ==
    IF IsOpen(w, channel)
    THEN Out([w EXCEPT !.chans =
                 [w.chans EXCEPT ![channel].prefetch = prefetch_count]],
             "none", "True", 0, 0)
    ELSE Out(w, "PikaUtilsError", "None", 0, 0)

\* get_blocking_connection: a new, open connection object.
get_blocking_connection(w) ==
    [w EXCEPT !.connOpen = Append(w.connOpen, TRUE)]

\* ------------------------------------------------------ topology functions
\* A broker refusal (404 NOT_FOUND, 406 PRECONDITION_FAILED) closes the
\* channel of the request and raises ChannelClosedByBroker in the client.
Refused(w, ch) ==
    Out(Drop(ChannelClosedBy(w, ch), ch), "ChannelClosedByBroker", "None", 0, 0)

\* close_channel(ch) and a return of res; the local ch goes out of scope.
CloseAndReturn(w, ch, res) ==
    Out(Drop(close_channel(w, ch).w, ch), "none", res, 0, 0)

\* A validate_queue whose declare is not passive: the broker creates the queue.
validate_queue_declares(o, queue) ==
    IF o.exc # "none" THEN o
    ELSE CloseAndReturn([o.w EXCEPT !.queues = @ \cup {queue}], o.ch, "True")

\* validate_queue: a passive declare; True when the queue exists, False when
\* the broker refuses it (ChannelClosed is caught); the channel is closed on
\* both paths.
validate_queue_ch(o, queue) ==
    IF o.exc # "none" THEN o
    ELSE IF queue \in o.w.queues
    THEN CloseAndReturn(o.w, o.ch, "True")
    ELSE CloseAndReturn(ChannelClosedBy(o.w, o.ch), o.ch, "False")

validate_queue(w, connection, queue) ==
    validate_queue_ch(open_channel_from_connection(w, connection), queue)

\* create_queue: queue_declare creates the queue when it is absent; its
\* result (a method frame) is truthy, so the channel is closed.
create_queue_ch(o, queue) ==
    IF o.exc # "none" THEN o
    ELSE CloseAndReturn([o.w EXCEPT !.queues = @ \cup {queue}], o.ch, "True")

create_queue(w, connection, queue) ==
    create_queue_ch(open_channel_from_connection(w, connection), queue)

\* delete_queue: removes the queue, its messages and its bindings; the broker
\* refuses when if_empty is set and the queue holds messages, or if_unused is
\* set and the queue has a consumer. Deleting an absent queue succeeds.
delete_queue_ch(o, queue, if_empty, if_unused, in_use) ==
    IF o.exc # "none" THEN o
    ELSE IF queue \in o.w.queues
            /\ \/ (if_empty /\ o.w.contents[queue] # <<>>)
               \/ (if_unused /\ in_use)
    THEN Refused(o.w, o.ch)
    ELSE CloseAndReturn([o.w EXCEPT
                           !.queues = @ \ {queue},
                           !.contents = [@ EXCEPT ![queue] = <<>>],
                           !.bindings = {b \in @ : b[2] # queue},
                           !.chans = [c \in DOMAIN @ |->
                                [@[c] EXCEPT !.unacked =
                                    SelectSeq(@, LAMBDA m : m.queue # queue)]]],
                        o.ch, "True")

delete_queue(w, connection, queue, if_empty, if_unused, in_use) ==
    delete_queue_ch(open_channel_from_connection(w, connection), queue,
                    if_empty, if_unused, in_use)

\* purge_queue: empties the queue and returns True; the channel it opened is
\* not closed. Purging an absent queue is refused by the broker.
purge_queue_ch(o, queue) ==
    IF o.exc # "none" THEN o
    ELSE IF queue \notin o.w.queues THEN Refused(o.w, o.ch)
    ELSE Out([o.w EXCEPT !.contents = [@ EXCEPT ![queue] = <<>>]],
             "none", "True", 0, 0)

purge_queue(w, connection, queue) ==
    purge_queue_ch(open_channel_from_connection(w, connection), queue)

\* create_exchange (exchange_type 'direct', durable): declares the exchange,
\* closes the channel, returns True.
create_exchange_ch(o, exchange) ==
    IF o.exc # "none" THEN o
    ELSE CloseAndReturn([o.w EXCEPT !.exchanges = @ \cup {exchange}],
                        o.ch, "True")

create_exchange(w, connection, exchange) ==
    create_exchange_ch(open_channel_from_connection(w, connection), exchange)

\* delete_exchange: removes the exchange and its bindings; refused when
\* if_unused is set and the exchange has bindings.
delete_exchange_ch(o, exchange, if_unused) ==
    IF o.exc # "none" THEN o
    ELSE IF if_unused /\ \E b \in o.w.bindings : b[1] = exchange
    THEN Refused(o.w, o.ch)
    ELSE CloseAndReturn([o.w EXCEPT
                           !.exchanges = @ \ {exchange},
                           !.bindings = {b \in @ : b[1] # exchange}],
                        o.ch, "True")

delete_exchange(w, connection, exchange, if_unused) ==
    delete_exchange_ch(open_channel_from_connection(w, connection), exchange,
                       if_unused)

\* bind_queue: adds the binding; refused when the exchange or the queue does
\* not exist.
bind_queue_ch(o, queue, exchange, routing_key) ==
    IF o.exc # "none" THEN o
    ELSE IF queue \notin o.w.queues \/ exchange \notin o.w.exchanges
    THEN Refused(o.w, o.ch)
    ELSE CloseAndReturn([o.w EXCEPT
                           !.bindings = @ \cup {<<exchange, queue, routing_key>>}],
                        o.ch, "True")

bind_queue(w, connection, queue, exchange, routing_key) ==
    bind_queue_ch(open_channel_from_connection(w, connection), queue, exchange,
                  routing_key)

\* unbind_queue: removes the binding; refused when the exchange or the queue
\* does not exist.
unbind_queue_ch(o, queue, exchange, routing_key) ==
    IF o.exc # "none" THEN o
    ELSE IF queue \notin o.w.queues \/ exchange \notin o.w.exchanges
    THEN Refused(o.w, o.ch)
    ELSE CloseAndReturn([o.w EXCEPT
                           !.bindings = @ \ {<<exchange, queue, routing_key>>}],
                        o.ch, "True")

unbind_queue(w, connection, queue, exchange, routing_key) ==
    unbind_queue_ch(open_channel_from_connection(w, connection), queue,
                    exchange, routing_key)

\* ----------------------------------------------------------------- publish
\* The broker routes a message of a direct exchange to every queue bound to
\* it under the message's routing key; a message no binding matches is
\* dropped (the publish is not mandatory) and the channel stays open.
Route(w, exchange, routing_key, body) ==
    [w EXCEPT !.contents =
        [q \in QueueNames |->
            IF <<exchange, q, routing_key>> \in w.bindings
            THEN Append(w.contents[q], body)
            ELSE w.contents[q]]]

\* A Basic.Publish frame with the body goes out; the broker accepts it or not.
Framed(w, body, accepted) ==
    [w EXCEPT !.wire = Append(@, [body |-> body, accepted |-> accepted])]

\* basic_publish on channel ch. A closed channel raises in the client; an
\* exchange that does not exist makes the broker close the channel (404),
\* which the client raises as ChannelClosedByBroker.
basic_publish(w, ch, exchange, routing_key, body) ==
    IF ~IsOpen(w, ch) THEN Out(w, "ChannelWrongStateError", "None", 0, 0)
    ELSE IF exchange \notin w.exchanges
    THEN Out(Framed(ChannelClosedBy(w, ch), body, FALSE),
             "ChannelClosedByBroker", "None", 0, 1)
    ELSE Out(Framed(Route(w, exchange, routing_key, body), body, TRUE),
             "none", "None", 0, 1)

\* json.dumps(data).encode(): the JSON text of a mapping, as bytes.
json_dumps(data) == "json(" \o data \o ")"

\* publish_message (module level): bytes are sent as they are, a dict as its
\* JSON text, anything else is not sent; then the channel is closed and True
\* is returned. An exception leaves through the bare re-raise, which closes
\* nothing: json.dumps raises TypeError on a value it cannot serialize.
publish_message_sent(p, ch) ==
    IF p.exc # "none"
    THEN Out(Drop(p.w, ch), p.exc, "None", 0, p.sent)
    ELSE Out(Drop(close_channel(p.w, ch).w, ch), "none", "True", 0, p.sent)

\* A publish_message that hands a dict to basic_publish as it is.
publish_message_raw(o, exchange, routing_key, data) ==
    IF o.exc # "none" THEN o
    ELSE IF data \in {"bytes", "dict"}
    THEN publish_message_sent(
             basic_publish(o.w, o.ch, exchange, routing_key, data), o.ch)
    ELSE IF data = "dict_unserializable"
    THEN publish_message_sent(Out(o.w, "TypeError", "None", 0, 0), o.ch)
    ELSE publish_message_sent(Out(o.w, "none", "None", 0, 0), o.ch)

\* A publish_message that refuses a payload it cannot send.
publish_message_strict(o, exchange, routing_key, data) ==
    IF o.exc # "none" THEN o
    ELSE IF data = "bytes"
    THEN publish_message_sent(
             basic_publish(o.w, o.ch, exchange, routing_key, data), o.ch)
    ELSE IF data = "dict"
    THEN publish_message_sent(
             basic_publish(o.w, o.ch, exchange, routing_key, json_dumps(data)),
             o.ch)
    ELSE publish_message_sent(Out(o.w, "TypeError", "None", 0, 0), o.ch)

publish_message_ch(o, exchange, routing_key, data) ==
    IF o.exc # "none" THEN o
    ELSE IF data = "bytes"
    THEN publish_message_sent(
             basic_publish(o.w, o.ch, exchange, routing_key, data), o.ch)
    ELSE IF data = "dict"
    THEN publish_message_sent(
             basic_publish(o.w, o.ch, exchange, routing_key, json_dumps(data)),
             o.ch)
    ELSE IF data = "dict_unserializable"
    THEN publish_message_sent(Out(o.w, "TypeError", "None", 0, 0), o.ch)
    ELSE publish_message_sent(Out(o.w, "none", "None", 0, 0), o.ch)

publish_message(w, connection, exchange, routing_key, data) ==
    publish_message_ch(open_channel_from_connection(w, connection), exchange,
                       routing_key, data)

\* ------------------------------------------------ BlockingConnectionAdapter
\* An adapter method's outcome: the world, the adapter's fields, the exception.
AOut(w, a, exc) == [w |-> w, a |-> a, exc |-> exc]

\* Records that channel ch was opened by the adapter (bookkeeping only).
ByAdapter(w, ch) == [w EXCEPT !.chans = [w.chans EXCEPT ![ch].by = "adapter"]]

\* _prepare_connection: self._connection = get_blocking_connection(...).
prepare_connection_to(n, a) ==
    AOut(n, [a EXCEPT !.connection = Len(n.connOpen)], "none")

prepare_connection(w, a) == prepare_connection_to(get_blocking_connection(w), a)

\* _prepare_channel_qos: set_channel_qos(self._channel, PREFETCH_COUNT).
prepare_channel_qos_set(q, a) == AOut(q.w, a, q.exc)

prepare_channel_qos(w, a) ==
    prepare_channel_qos_set(set_channel_qos(w, a.channel, PREFETCH_COUNT), a)

\* _prepare_channel: on a closed connection it only reconnects; on an open
\* one it opens a channel and applies the prefetch count.
prepare_channel_ch(o, a) ==
    prepare_channel_qos(ByAdapter(o.w, o.ch), [a EXCEPT !.channel = o.ch])

prepare_channel(w, a) ==
    IF ~w.connOpen[a.connection]
    THEN prepare_connection(w, a)
    ELSE prepare_channel_ch(open_channel_from_connection(w, a.connection), a)

\* get_channel: self._channel = a new channel on the connection; nothing
\* else is done to it.
get_channel_ch(o, a) ==
    IF o.exc # "none" THEN AOut(o.w, a, o.exc)
    ELSE AOut(ByAdapter(o.w, o.ch), [a EXCEPT !.channel = o.ch], "none")

get_channel(w, a) ==
    get_channel_ch(open_channel_from_connection(w, a.connection), a)

\* A connect that replaces the connection and keeps the channel it had.
connect_keeps_channel(c) == c

\* connect: only when the connection is closed, a new connection and channel.
connect_prepared(c) == prepare_channel(c.w, c.a)

\* A connect that does not look at the connection's state.
connect_unconditionally(w, a) == connect_prepared(prepare_connection(w, a))

connect(w, a) ==
    IF ~w.connOpen[a.connection]
    THEN connect_prepared(prepare_connection(w, a))
    ELSE AOut(w, a, "none")

\* The channel property: self._channel.
channel(w, a) == a.channel

\* ------------------------------------------------------- BasicPikaPublisher
\* A publisher method's outcome: the world, the publisher's fields, the
\* exception, the publish_message calls made, the repairs started, the
\* Basic.Publish frames sent and the functions called, in order.
POut(w, p, exc, pubs, repairs, sent, log) ==
    [w |-> w, p |-> p, exc |-> exc, pubs |-> pubs, repairs |-> repairs,
     sent |-> sent, log |-> log]

\* declare_exchange: takes the name when one is given, then create_exchange.
declare_exchange_as(w, a, np) ==
    POut(create_exchange(w, a.connection, np.exchange).w, np,
         create_exchange(w, a.connection, np.exchange).exc,
         0, 0, 0, <<"create_exchange">>)

declare_exchange(w, a, p, exchange) ==
    declare_exchange_as(w, a,
        IF exchange # "" THEN [p EXCEPT !.exchange = exchange] ELSE p)

\* declare_queue: takes the name when one is given, then create_queue.
declare_queue_as(w, a, np) ==
    POut(create_queue(w, a.connection, np.queue).w, np,
         create_queue(w, a.connection, np.queue).exc,
         0, 0, 0, <<"create_queue">>)

declare_queue(w, a, p, queue) ==
    declare_queue_as(w, a, IF queue # "" THEN [p EXCEPT !.queue = queue] ELSE p)

\* bind_routing_key: declare_exchange, declare_queue, then bind_queue under
\* the routing key; the first exception ends it.
bind_routing_key_bound(b, np, log) ==
    POut(b.w, np, b.exc, 0, 0, 0, log \o <<"bind_queue">>)

bind_routing_key_key(w, a, np, log) ==
    bind_routing_key_bound(
        bind_queue(w, a.connection, np.queue, np.exchange, np.routing_key),
        np, log)

bind_routing_key_queue(q, a, routing_key, log) ==
    IF q.exc # "none" THEN POut(q.w, q.p, q.exc, 0, 0, 0, log \o q.log)
    ELSE bind_routing_key_key(q.w, a,
             IF routing_key # ""
             THEN [q.p EXCEPT !.routing_key = routing_key] ELSE q.p,
             log \o q.log)

bind_routing_key_exchange(e, a, queue, routing_key) ==
    IF e.exc # "none" THEN e
    ELSE bind_routing_key_queue(declare_queue(e.w, a, e.p, queue), a,
                                routing_key, e.log)

bind_routing_key(w, a, p, exchange, queue, routing_key) ==
    bind_routing_key_exchange(declare_exchange(w, a, p, exchange), a, queue,
                              routing_key)

\* Publisher.publish_message: publish_message; on ChannelClosedByBroker,
\* bind_routing_key and publish_message once more. Anything else propagates.
publisher_publish_message_retried(p2, b, sent) ==
    POut(p2.w, b.p, p2.exc, 2, 1, sent + p2.sent,
         <<"publish_message">> \o b.log \o <<"publish_message">>)

publisher_publish_message_repaired(b, a, body, sent) ==
    IF b.exc # "none"
    THEN POut(b.w, b.p, b.exc, 1, 1, sent, <<"publish_message">> \o b.log)
    ELSE publisher_publish_message_retried(
             publish_message(b.w, a.connection, b.p.exchange, b.p.routing_key,
                             body),
             b, sent)

publisher_publish_message_first(p1, a, p, body) ==
    IF p1.exc # "ChannelClosedByBroker"
    THEN POut(p1.w, p, p1.exc, 1, 0, p1.sent, <<"publish_message">>)
    ELSE publisher_publish_message_repaired(
             bind_routing_key(p1.w, a, p, p.exchange, p.queue, p.routing_key),
             a, body, p1.sent)

publisher_publish_message(w, a, p, body) ==
    publisher_publish_message_first(
        publish_message(w, a.connection, p.exchange, p.routing_key, body),
        a, p, body)

\* Publisher.publish: on an open connection, basic_publish of the body as it
\* is on the adapter's channel; on a closed connection, nothing. pika frames
\* bytes only: another body raises TypeError before a frame is sent. When the
\* exchange does not exist the broker closes the adapter's channel, and the
\* call may or may not be the one that sees it (surfaced).
publisher_publish_sent(r, p, surfaced) ==
    POut(r.w, p,
         IF r.exc = "ChannelClosedByBroker" /\ ~surfaced THEN "none" ELSE r.exc,
         0, 0, r.sent, <<>>)

\* A publish that does not look at the connection's state.
publisher_publish_unguarded(w, a, p, routing_key, body, surfaced) ==
    IF ~IsOpen(w, channel(w, a))
    THEN POut(w, p, "ChannelWrongStateError", 0, 0, 0, <<>>)
    ELSE IF body # "bytes"
    THEN POut(w, p, "TypeError", 0, 0, 0, <<>>)
    ELSE publisher_publish_sent(
             basic_publish(w, channel(w, a), p.exchange, routing_key, body),
             p, surfaced)

publisher_publish(w, a, p, routing_key, body, surfaced) ==
    IF ~w.connOpen[a.connection]
    THEN POut(w, p, "none", 0, 0, 0, <<>>)
    ELSE IF ~IsOpen(w, channel(w, a))
    THEN POut(w, p, "ChannelWrongStateError", 0, 0, 0, <<>>)
    ELSE IF body # "bytes"
    THEN POut(w, p, "TypeError", 0, 0, 0, <<>>)
    ELSE publisher_publish_sent(
             basic_publish(w, channel(w, a), p.exchange, routing_key, body),
             p, surfaced)

\* -------------------------------------------------------- BasicPikaConsumer
\* A consumer method's outcome: the world, the adapter, the exception, and
\* whether the consume loop was entered, and through the try branch (guarded).
COut(w, a, exc, looping, guarded) ==
    [w |-> w, a |-> a, exc |-> exc, looping |-> looping, guarded |-> guarded]

\* basic_consume: refused by the broker when the queue does not exist, and
\* by the client on a closed channel.
basic_consume(w, ch, queue) ==
    IF ~IsOpen(w, ch) THEN Out(w, "ChannelWrongStateError", "None", 0, 0)
    ELSE IF queue \notin w.queues
    THEN Out(ChannelClosedBy(w, ch), "ChannelClosedByBroker", "None", 0, 0)
    ELSE Out(w, "none", "None", 0, 0)

\* _consume: with connection and channel open, basic_consume and
\* start_consuming inside the try; otherwise connect() first and the same
\* without the try.
consume_started(b, a, guarded) == COut(b.w, a, b.exc, b.exc = "none", guarded)

consume_connected(c, queue) ==
    IF c.exc # "none" THEN COut(c.w, c.a, c.exc, FALSE, FALSE)
    ELSE consume_started(basic_consume(c.w, channel(c.w, c.a), queue), c.a, FALSE)

consume(w, a, queue) ==
    IF w.connOpen[a.connection] /\ IsOpen(w, channel(w, a))
    THEN consume_started(basic_consume(w, channel(w, a), queue), a, TRUE)
    ELSE consume_connected(connect(w, a), queue)

\* A basic_consume with auto_ack: a delivery awaits no acknowledgement.
basic_deliver_auto_ack(w, ch, queue) ==
    [w EXCEPT !.contents = [@ EXCEPT ![queue] = Tail(@)],
              !.chans = [@ EXCEPT ![ch].tag = @ + 1]]

\* The broker delivers the head of the queue on channel ch under the
\* channel's next delivery tag; the message awaits its acknowledgement
\* (basic_consume is called without auto_ack).
basic_deliver(w, ch, queue) ==
    [w EXCEPT !.contents = [@ EXCEPT ![queue] = Tail(@)],
              !.chans = [@ EXCEPT ![ch] =
                  [@ EXCEPT !.tag = @ + 1,
                            !.unacked = Append(@,
                                [tag |-> w.chans[ch].tag + 1, queue |-> queue,
                                 body |-> Head(w.contents[queue])])]]]

\* acknowledge_message: basic_ack of the delivery tag; the broker forgets
\* the message.
acknowledge_message(w, ch, delivery_tag) ==
    [w EXCEPT !.chans = [@ EXCEPT ![ch].unacked =
                            SelectSeq(@, LAMBDA m : m.tag # delivery_tag)]]

\* nacknowledge_message: basic_nack of the delivery tag (requeue is pika's
\* default); the broker queues the message again.
nacknowledge_message(w, ch, delivery_tag) ==
    [w EXCEPT !.contents =
                 [q \in QueueNames |->
                     IF q \in w.queues
                     THEN BodiesOf(SelectSeq(w.chans[ch].unacked,
                                             LAMBDA m : m.tag = delivery_tag), q)
                          \o w.contents[q]
                     ELSE w.contents[q]],
              !.chans = [@ EXCEPT ![ch].unacked =
                            SelectSeq(@, LAMBDA m : m.tag # delivery_tag)]]

\* on_message_callback(channel, method, properties, body): the handler acks
\* the delivery, nacks it, or returns without either.
on_message_callback(w, ch, delivery_tag, handler) ==
    IF handler = "ack" THEN acknowledge_message(w, ch, delivery_tag)
    ELSE IF handler = "nack" THEN nacknowledge_message(w, ch, delivery_tag)
    ELSE w

\* The consumer's record of its run after the handler was called with the
\* delivery tag.
consumer_handled(c, delivery_tag, handler) ==
    [c EXCEPT !.handled = Append(@, delivery_tag),
              !.acked = IF handler = "ack" THEN @ \cup {delivery_tag} ELSE @]

\* The consumer's record when a run starts or ends.
consumer_at(c, state, guarded) ==
    [c EXCEPT !.state = state, !.guarded = guarded,
              !.handled = <<>>, !.acked = {}]

\* A _consume whose try also swallows the broker's channel closure.
consume_loop_swallows(guarded, event) ==
    IF guarded /\ event \in {"KeyboardInterrupt", "ChannelClosedByBroker"}
    THEN "none" ELSE event

\* The consume loop ends on an event: in the try branch KeyboardInterrupt is
\* caught (stop_consuming, a normal return) and ChannelClosedByBroker is
\* raised again; the other branch has no handler. The result is the
\* exception that leaves _consume ("none": it returns).
consume_loop_exit(guarded, event) ==
    IF guarded /\ event = "KeyboardInterrupt" THEN "none" ELSE event

\* A _validate_queue that only validates: an absent queue stays absent.
consumer_validate_queue_only(v, a, queue) == v

\* _validate_queue: validate_queue on the adapter's connection, and
\* create_queue when it reports the queue absent.
consumer_validate_queue_checked(v, a, queue) ==
    IF v.exc # "none" THEN v
    ELSE IF v.res = "False" THEN create_queue(v.w, a.connection, queue)
    ELSE v

consumer_validate_queue(w, a, queue) ==
    consumer_validate_queue_checked(validate_queue(w, a.connection, queue), a,
                                    queue)

\* run: _validate_queue, then connect() on a closed connection, then
\* get_channel() on a closed channel, then _consume.
run_channel(g, queue) ==
    IF g.exc # "none" THEN COut(g.w, g.a, g.exc, FALSE, FALSE)
    ELSE consume(g.w, g.a, queue)

run_connected(c, queue) ==
    IF c.exc # "none" THEN COut(c.w, c.a, c.exc, FALSE, FALSE)
    ELSE IF ~IsOpen(c.w, channel(c.w, c.a))
    THEN run_channel(get_channel(c.w, c.a), queue)
    ELSE run_channel(c, queue)

run_validated(v, a, queue) ==
    IF v.exc # "none" THEN COut(v.w, a, v.exc, FALSE, FALSE)
    ELSE IF ~v.w.connOpen[a.connection]
    THEN run_connected(connect(v.w, a), queue)
    ELSE run_connected(AOut(v.w, a, "none"), queue)

run(w, a, queue) == run_validated(consumer_validate_queue(w, a, queue), a, queue)

\* ------------------------------------------------------------------ actions
\* The record of the last operation: its name and argument, the exception it
\* raised ("none": it returned), its return value, the channel it returned,
\* the publish_message calls, repairs and Basic.Publish frames it made, the
\* functions it called, and whether the adapter's connection was open when
\* it was called.
Ret(op, arg, exc, res, ch, pubs, repairs, sent, log) ==
    [op |-> op, arg |-> arg, exc |-> exc, res |-> res, ch |-> ch,
     pubs |-> pubs, repairs |-> repairs, sent |-> sent, log |-> log,
     connWasOpen |-> connOpen[adapter.connection], wire |-> <<>>]

Plain(op, arg, exc, res) == Ret(op, arg, exc, res, 0, 0, 0, 0, <<>>)

\* The caller is not blocked inside the consume loop.
ThreadFree == consumer.state = "idle"

\* Bounds of the model: a channel identity is free, a connection can still
\* be created, the queues have room.
CanOpenChannel == FreeChans(World) # {}
CanConnect == connOpen[adapter.connection] \/ Len(connOpen) < MaxConns
Unacked == {c \in DOMAIN chans : chans[c].unacked # <<>>}
HasRoom ==
    /\ \A q \in QueueNames : Len(contents[q]) < MaxQLen
    /\ Unacked = {}

Init ==
    /\ connOpen = <<TRUE>>
    /\ chans = [c \in {1} |-> [conn |-> 1, open |-> TRUE,
                               prefetch |-> PREFETCH_COUNT, by |-> "adapter",
                               tag |-> 0, unacked |-> <<>>]]
    /\ exchanges = {}
    /\ queues = {}
    /\ contents = [q \in QueueNames |-> <<>>]
    /\ bindings = {}
    /\ adapter = [connection |-> 1, channel |-> 1]
    /\ publisher = [exchange |-> "ex1", queue |-> "q1", routing_key |-> "rk1"]
    /\ consumer = [queue |-> "q1", state |-> "idle", guarded |-> TRUE,
                   handled |-> <<>>, acked |-> {}]
    /\ ret = [op |-> "__init__", arg |-> "", exc |-> "none", res |-> "None",
              ch |-> 0, pubs |-> 0, repairs |-> 0, sent |-> 0, log |-> <<>>,
              connWasOpen |-> FALSE, wire |-> <<>>]

\* An adapter method ends: the world and the adapter as it left them.
AdapterDone(r, op) ==
    /\ SetWorld(Collect(r.w, r.a))
    /\ adapter' = r.a
    /\ ret' = Plain(op, "", r.exc, "None")
    /\ UNCHANGED <<publisher, consumer>>

\* A module-level function ends.
FunctionDone(r, op, arg) ==
    /\ SetWorld(r.w)
    /\ ret' = [Plain(op, arg, r.exc, r.res) EXCEPT !.wire = r.w.wire]
    /\ UNCHANGED <<adapter, publisher, consumer>>

\* A publisher method ends.
PublisherDone(r, op, arg) ==
    /\ SetWorld(Collect(r.w, adapter))
    /\ publisher' = r.p
    /\ ret' = [Ret(op, arg, r.exc, "None", 0, r.pubs, r.repairs, r.sent, r.log)
                  EXCEPT !.wire = r.w.wire]
    /\ UNCHANGED <<adapter, consumer>>

Connect ==
    /\ ThreadFree /\ CanOpenChannel /\ CanConnect
    /\ AdapterDone(connect(World, adapter), "connect")

GetChannel ==
    /\ ThreadFree /\ CanOpenChannel
    /\ LET r == get_channel(World, adapter) IN
       /\ SetWorld(Collect(r.w, r.a))
       /\ adapter' = r.a
       /\ ret' = Ret("get_channel", "", r.exc, "None",
                     IF r.exc = "none" THEN r.a.channel ELSE 0, 0, 0, 0, <<>>)
       /\ UNCHANGED <<publisher, consumer>>

\* _prepare_channel_qos called by itself.
PrepareChannelQos ==
    /\ ThreadFree
    /\ AdapterDone(prepare_channel_qos(World, adapter), "_prepare_channel_qos")

\* _close_channel: close_channel(self._channel).
CloseChannel ==
    /\ ThreadFree
    /\ LET r == close_channel(World, adapter.channel) IN
       /\ SetWorld(Collect(r.w, adapter))
       /\ ret' = Plain("_close_channel", "", r.exc, r.res)
       /\ UNCHANGED <<adapter, publisher, consumer>>

\* _close_connection: close_connection(self._connection).
CloseConnection ==
    /\ ThreadFree
    /\ LET r == close_connection(World, adapter.connection) IN
       /\ SetWorld(Collect(r.w, adapter))
       /\ ret' = Plain("_close_connection", "", r.exc, r.res)
       /\ UNCHANGED <<adapter, publisher, consumer>>

\* Reading the channel property.
ReadChannel ==
    /\ ThreadFree
    /\ ret' = Ret("channel", "", "none", "channel", channel(World, adapter),
                  0, 0, 0, <<>>)
    /\ UNCHANGED <<connOpen, chans, exchanges, queues, contents, bindings,
                   adapter, publisher, consumer>>

\* publish_message (module level) on the adapter's connection.
PublishMessageFunction ==
    /\ ThreadFree /\ CanOpenChannel /\ HasRoom
    /\ \E exchange \in ExchangeNames, routing_key \in RoutingKeys,
          data \in Payloads :
          FunctionDone(publish_message(World, adapter.connection, exchange,
                                       routing_key, data),
                       "pika_utils.publish_message", data)

PublishMessage ==
    /\ ThreadFree /\ CanOpenChannel /\ HasRoom
    /\ \E body \in Payloads :
          PublisherDone(publisher_publish_message(World, adapter, publisher, body),
                        "publish_message", body)

Publish ==
    /\ ThreadFree /\ HasRoom
    /\ \E routing_key \in RoutingKeys, body \in Payloads, surfaced \in BOOLEAN :
          PublisherDone(publisher_publish(World, adapter, publisher,
                                          routing_key, body, surfaced),
                        "publish", body)

DeclareExchange ==
    /\ ThreadFree /\ CanOpenChannel
    /\ \E exchange \in ExchangeNames \cup {""} :
          PublisherDone(declare_exchange(World, adapter, publisher, exchange),
                        "declare_exchange", exchange)

DeclareQueue ==
    /\ ThreadFree /\ CanOpenChannel
    /\ \E queue \in QueueNames \cup {""} :
          PublisherDone(declare_queue(World, adapter, publisher, queue),
                        "declare_queue", queue)

BindRoutingKey ==
    /\ ThreadFree /\ CanOpenChannel
    /\ \E exchange \in ExchangeNames, queue \in QueueNames,
          routing_key \in RoutingKeys :
          PublisherDone(bind_routing_key(World, adapter, publisher, exchange,
                                         queue, routing_key),
                        "bind_routing_key", queue)

ValidateQueue ==
    /\ ThreadFree /\ CanOpenChannel
    /\ \E queue \in QueueNames :
          FunctionDone(validate_queue(World, adapter.connection, queue),
                       "validate_queue", queue)

CreateQueue ==
    /\ ThreadFree /\ CanOpenChannel
    /\ \E queue \in QueueNames :
          FunctionDone(create_queue(World, adapter.connection, queue),
                       "create_queue", queue)

DeleteQueue ==
    /\ ThreadFree /\ CanOpenChannel
    /\ \E queue \in QueueNames, if_empty \in BOOLEAN, if_unused \in BOOLEAN :
          FunctionDone(delete_queue(World, adapter.connection, queue, if_empty,
                                    if_unused,
                                    consumer.state = "consuming"
                                        /\ consumer.queue = queue),
                       "delete_queue", queue)

PurgeQueue ==
    /\ ThreadFree /\ CanOpenChannel
    /\ \E queue \in QueueNames :
          FunctionDone(purge_queue(World, adapter.connection, queue),
                       "purge_queue", queue)

CreateExchange ==
    /\ ThreadFree /\ CanOpenChannel
    /\ \E exchange \in ExchangeNames :
          FunctionDone(create_exchange(World, adapter.connection, exchange),
                       "create_exchange", exchange)

DeleteExchange ==
    /\ ThreadFree /\ CanOpenChannel
    /\ \E exchange \in ExchangeNames, if_unused \in BOOLEAN :
          FunctionDone(delete_exchange(World, adapter.connection, exchange,
                                       if_unused),
                       "delete_exchange", exchange)

BindQueue ==
    /\ ThreadFree /\ CanOpenChannel
    /\ \E queue \in QueueNames, exchange \in ExchangeNames,
          routing_key \in RoutingKeys :
          FunctionDone(bind_queue(World, adapter.connection, queue, exchange,
                                  routing_key),
                       "bind_queue", queue)

UnbindQueue ==
    /\ ThreadFree /\ CanOpenChannel
    /\ \E queue \in QueueNames, exchange \in ExchangeNames,
          routing_key \in RoutingKeys :
          FunctionDone(unbind_queue(World, adapter.connection, queue, exchange,
                                    routing_key),
                       "unbind_queue", queue)

\* A consumer method is called: it raises, or it blocks in the consume loop.
ConsumerDone(r, op) ==
    /\ SetWorld(Collect(r.w, r.a))
    /\ adapter' = r.a
    /\ consumer' = consumer_at(consumer,
                               IF r.looping THEN "consuming" ELSE "idle",
                               r.guarded)
    /\ ret' = Ret(op, consumer.queue, r.exc,
                  IF r.looping THEN "consuming" ELSE "None", 0, 0, 0, 0,
                  IF consumer.queue \notin queues /\ consumer.queue \in r.w.queues
                  THEN <<"create_queue">> ELSE <<>>)
    /\ UNCHANGED publisher

Run ==
    /\ ThreadFree /\ CanOpenChannel /\ CanConnect
    /\ ConsumerDone(run(World, adapter, consumer.queue), "run")

\* _consume called by itself.
Consume ==
    /\ ThreadFree /\ CanOpenChannel /\ CanConnect
    /\ ConsumerDone(consume(World, adapter, consumer.queue), "_consume")

\* KeyboardInterrupt in the consume loop: caught in the try branch
\* (stop_consuming, a normal return), raised to the caller in the other.
Interrupt ==
    /\ consumer.state = "consuming"
    /\ consumer' = consumer_at(consumer, "idle", consumer.guarded)
    /\ ret' = Plain("loop_exit", "KeyboardInterrupt",
                    consume_loop_exit(consumer.guarded, "KeyboardInterrupt"),
                    "None")
    /\ UNCHANGED <<connOpen, chans, exchanges, queues, contents, bindings,
                   adapter, publisher>>

\* Another client of the broker publishes a message that the broker routes
\* to the consumer's queue; this can happen while the consumer is in its loop.
Arrive ==
    /\ HasRoom
    /\ consumer.queue \in queues
    /\ \E body \in {"bytes", json_dumps("dict")} :
          /\ contents' = [contents EXCEPT ![consumer.queue] = Append(@, body)]
          /\ ret' = Plain("arrive", body, "none", "None")
    /\ UNCHANGED <<connOpen, chans, exchanges, queues, bindings,
                   adapter, publisher, consumer>>

\* The broker delivers a message to the consume loop, which calls the
\* handler with it. A prefetch count of 0 is no limit.
Delivered(w, ch, handler) ==
    /\ SetWorld(on_message_callback(w, ch, w.chans[ch].tag, handler))
    /\ consumer' = consumer_handled(consumer, w.chans[ch].tag, handler)
    /\ ret' = Plain("deliver", handler, "none", "None")
    /\ UNCHANGED <<adapter, publisher>>

Deliver ==
    /\ consumer.state = "consuming"
    /\ IsOpen(World, adapter.channel)
    /\ consumer.queue \in queues
    /\ contents[consumer.queue] # <<>>
    /\ \/ chans[adapter.channel].prefetch = 0
       \/ Len(chans[adapter.channel].unacked) < chans[adapter.channel].prefetch
    /\ chans[adapter.channel].tag < MaxDeliveries
    /\ \E handler \in Handlers :
          Delivered(basic_deliver(World, adapter.channel, consumer.queue),
                    adapter.channel, handler)

\* The broker closes an open channel; a consume loop on it ends with
\* ChannelClosedByBroker.
BrokerCloseChannel ==
    \E c \in OpenChans(World) :
       LET hit == consumer.state = "consuming" /\ c = adapter.channel IN
       /\ SetWorld(Collect(ChannelClosedBy(World, c), adapter))
       /\ consumer' = IF hit THEN consumer_at(consumer, "idle", consumer.guarded)
                      ELSE consumer
       /\ ret' = IF hit
                 THEN Plain("loop_exit", "ChannelClosedByBroker",
                            consume_loop_exit(consumer.guarded,
                                              "ChannelClosedByBroker"),
                            "None")
                 ELSE Plain("broker_close_channel", "", "none", "None")
       /\ UNCHANGED <<adapter, publisher>>

\* The broker closes the connection; a consume loop on it ends with the
\* connection's error.
BrokerCloseConnection ==
    /\ connOpen[adapter.connection]
    /\ LET hit == consumer.state = "consuming" IN
       /\ SetWorld(Collect(ConnectionClosedBy(World, adapter.connection), adapter))
       /\ consumer' = IF hit THEN consumer_at(consumer, "idle", consumer.guarded)
                      ELSE consumer
       /\ ret' = IF hit
                 THEN Plain("loop_exit", "ConnectionClosedByBroker",
                            consume_loop_exit(consumer.guarded,
                                              "ConnectionClosedByBroker"),
                            "None")
                 ELSE Plain("broker_close_connection", "", "none", "None")
       /\ UNCHANGED <<adapter, publisher>>

Next ==
    \/ Connect
    \/ GetChannel
    \/ CloseChannel
    \/ CloseConnection
    \/ ReadChannel
    \/ PublishMessageFunction
    \/ PublishMessage
    \/ Publish
    \/ DeclareExchange
    \/ DeclareQueue
    \/ BindRoutingKey
    \/ ValidateQueue
    \/ CreateQueue
    \/ DeleteQueue
    \/ PurgeQueue
    \/ CreateExchange
    \/ DeleteExchange
    \/ BindQueue
    \/ UnbindQueue
    \/ Run
    \/ Consume
    \/ Interrupt
    \/ BrokerCloseChannel
    \/ BrokerCloseConnection

Spec == Init /\ [][Next]_vars

\* The adapter's methods, each called by itself, and the module's functions
\* on the adapter's connection, with the closures the broker makes.
AdapterNext ==
    \/ Connect
    \/ GetChannel
    \/ PrepareChannelQos
    \/ CloseChannel
    \/ CloseConnection
    \/ ReadChannel
    \/ ValidateQueue
    \/ CreateQueue
    \/ DeleteQueue
    \/ PurgeQueue
    \/ CreateExchange
    \/ DeleteExchange
    \/ BindQueue
    \/ UnbindQueue
    \/ BrokerCloseChannel
    \/ BrokerCloseConnection

AdapterSpec == Init /\ [][AdapterNext]_vars

\* The consumer's process: publishers fill the queue, the adapter's
\* connection and channel come and go, the consumer runs, and the broker
\* delivers to the consume loop.
ConsumerNext ==
    \/ PublishMessage
    \/ Connect
    \/ GetChannel
    \/ CloseChannel
    \/ CloseConnection
    \/ Run
    \/ Consume
    \/ Arrive
    \/ Deliver
    \/ Interrupt
    \/ BrokerCloseChannel
    \/ BrokerCloseConnection

ConsumerSpec == Init /\ [][ConsumerNext]_vars

\* ------------------------------------------------------------------- claims
\* Everything but the record of the last operation.
program == <<connOpen, chans, exchanges, queues, contents, bindings,
             adapter, publisher, consumer>>

ConnectionOpen == connOpen[adapter.connection]

\* No queue is bound to the publisher's exchange under its routing key.
NoBinding ==
    \A q \in QueueNames :
        <<publisher.exchange, q, publisher.routing_key>> \notin bindings

\* The body publish_message puts on the wire for a supported payload.
WireBody(data) == IF data = "dict" THEN json_dumps(data) ELSE data

Holds(c, q, body) == \E i \in 1..Len(c[q]) : c[q][i] = body

RepairLog ==
    <<"publish_message", "create_exchange", "create_queue", "bind_queue",
      "publish_message">>

\* C1: a Publisher.publish_message of a bytes or dict payload, on an open
\* connection, while no binding exists for its exchange and routing key, runs
\* exactly one repair (declare exchange, declare queue, bind, in that order)
\* and exactly two publish attempts, the second after the repair.
C1_RepairOnMissingBinding ==
    [][(/\ ret'.op = "publish_message"
        /\ ret'.arg \in {"bytes", "dict"}
        /\ ConnectionOpen
        /\ NoBinding)
       => (ret'.repairs = 1 /\ ret'.pubs = 2 /\ ret'.log = RepairLog)]_vars

\* C2: a Publisher.publish_message of a bytes or dict payload, on an open
\* connection, while no binding exists for its routing key (the exchange
\* absent, or present but unbound), returns without an error, and afterwards
\* the exchange, the queue and the binding exist and the message is in the
\* bound queue.
C2_PublishAutoProvisions ==
    [][(/\ ret'.op = "publish_message"
        /\ ret'.arg \in {"bytes", "dict"}
        /\ ConnectionOpen
        /\ NoBinding)
       => (/\ ret'.exc = "none"
           /\ publisher'.exchange \in exchanges'
           /\ publisher'.queue \in queues'
           /\ <<publisher'.exchange, publisher'.queue, publisher'.routing_key>>
                  \in bindings'
           /\ Holds(contents', publisher'.queue, WireBody(ret'.arg)))]_vars

\* C3: in every reachable state, the prefetch count in effect on the
\* adapter's current channel, when connection and channel are open, is the
\* adapter's configured prefetch count.
C3_PrefetchOnCurrentChannel ==
    (ConnectionOpen /\ IsOpen(World, adapter.channel))
        => chans[adapter.channel].prefetch = PREFETCH_COUNT

\* C4: Consumer.run(), from any adapter state, reaches the consume loop with
\* the adapter's connection open and its channel open; it does not fail.
C4_RunReachesLoop ==
    ret.op = "run"
        => /\ ret.exc = "none"
           /\ consumer.state = "consuming"
           /\ ConnectionOpen
           /\ IsOpen(World, adapter.channel)

\* C5: the channel the adapter's channel accessor returns is open whenever
\* the connection is open.
C5_ChannelAccessorOpen ==
    (ret.op = "channel" /\ ConnectionOpen) => IsOpen(World, ret.ch)

\* The open channels the adapter opened on its current connection.
AdapterChannels ==
    {c \in DOMAIN chans :
        chans[c].open /\ chans[c].by = "adapter"
            /\ chans[c].conn = adapter.connection}

\* C6: in every reachable state, at most one channel opened by the adapter
\* is open on its connection.
C6_AtMostOneAdapterChannel == Cardinality(AdapterChannels) <= 1

\* C7: connect() on an adapter whose connection is open changes nothing:
\* connections, channels, broker and the adapter's handles stay as they were.
C7_ConnectOnOpenIsNoop ==
    [][(ret'.op = "connect" /\ ConnectionOpen)
       => (ret'.exc = "none" /\ UNCHANGED program)]_vars

\* C7 witness: connect() has returned from a call made on an open connection.
C7_Witness ==
    ret.op = "connect" /\ ret.connWasOpen /\ ConnectionOpen

TopologyOps ==
    {"validate_queue", "create_queue", "delete_queue", "purge_queue",
     "create_exchange", "delete_exchange", "bind_queue", "unbind_queue"}

OpenCount == Cardinality(OpenChans(World))

\* C8: a topology function that returns leaves as many channels open on the
\* connection as there were when it was called.
C8_TopologyOpsCloseTheirChannel ==
    [][(ret'.op \in TopologyOps /\ ret'.exc = "none")
       => OpenCount' = OpenCount]_vars

\* C9: Publisher.publish on a closed connection sends nothing, raises
\* nothing and changes no connection, channel, broker or adapter state.
C9_PublishOnClosedIsNoop ==
    [][(ret'.op = "publish" /\ ~ConnectionOpen)
       => (ret'.exc = "none" /\ ret'.sent = 0 /\ UNCHANGED program)]_vars

\* C9 witness: publish has returned from a call made on a closed connection.
C9_Witness ==
    ret.op = "publish" /\ ~ret.connWasOpen /\ ~ConnectionOpen

\* The operations that call create_queue.
QueueCreators ==
    {"create_queue", "declare_queue", "bind_routing_key", "publish_message",
     "run"}

\* C10: on an open connection validate_queue(q) raises nothing, reports
\* whether q exists and leaves the broker's queues as they are; q exists
\* after create_queue(q) has returned, comes to exist only through an
\* operation that calls create_queue, and ceases to exist only through
\* delete_queue.
C10_ValidateQueue ==
    [][/\ (ret'.op = "validate_queue" /\ ConnectionOpen)
          => (/\ ret'.exc = "none"
              /\ ret'.res = (IF ret'.arg \in queues THEN "True" ELSE "False")
              /\ queues' = queues)
       /\ (ret'.op = "create_queue" /\ ret'.exc = "none")
          => ret'.arg \in queues'
       /\ \A q \in QueueNames :
             /\ (q \notin queues /\ q \in queues') => ret'.op \in QueueCreators
             /\ (q \in queues /\ q \notin queues') => ret'.op = "delete_queue"
      ]_vars

\* C10 witness: validate_queue has reported True for a queue that was created.
C10_Witness ==
    ret.op = "validate_queue" /\ ret.res = "True" /\ ret.arg \in queues

\* C11: Consumer.run() called with the connection open does not fail: it
\* enters the consume loop, the queue exists when it does, and a queue that
\* existed already leaves the broker's topology and messages as they were.
C11_RunProvisionsQueue ==
    [][(ret'.op = "run" /\ ConnectionOpen)
       => (/\ ret'.exc = "none"
           /\ consumer'.state = "consuming"
           /\ consumer.queue \in queues'
           /\ consumer.queue \in queues
              => UNCHANGED <<exchanges, queues, contents, bindings>>)]_vars

\* C11 witness: run() is in the consume loop on a queue it created itself.
C11_Witness ==
    /\ ret.op = "run" /\ ret.log = <<"create_queue">>
    /\ consumer.state = "consuming" /\ consumer.queue \in queues

\* C12: a channel closed by the broker during the consume loop ends the loop
\* with ChannelClosedByBroker raised to the caller; the loop is entered again
\* only by a call of run() or _consume(); and a run() called right after
\* opens a channel and is back in the consume loop.
C12_ChannelClosureEndsLoop ==
    [][/\ (/\ consumer.state = "consuming"
           /\ chans[adapter.channel].open
           /\ ~chans'[adapter.channel].open
           /\ connOpen'[adapter.connection])
          => (/\ ret'.op = "loop_exit"
              /\ ret'.exc = "ChannelClosedByBroker"
              /\ consumer'.state = "idle")
       /\ (consumer.state = "idle" /\ consumer'.state = "consuming")
          => ret'.op \in {"run", "_consume"}
       /\ (/\ ret.op = "loop_exit" /\ ret.arg = "ChannelClosedByBroker"
           /\ ret'.op = "run")
          => (/\ ret'.exc = "none"
              /\ consumer'.state = "consuming"
              /\ adapter'.channel \in DOMAIN chans'
              /\ chans'[adapter'.channel].open
              /\ connOpen'[adapter'.connection])
      ]_vars

\* C12 witness: the consume loop has ended on a channel closed by the broker.
C12_Witness ==
    /\ ret.op = "loop_exit" /\ ret.arg = "ChannelClosedByBroker"
    /\ ret.exc = "ChannelClosedByBroker" /\ consumer.state = "idle"
    /\ ConnectionOpen /\ ~IsOpen(World, adapter.channel)

\* C13: an interrupt in the consume loop, whichever branch of _consume
\* entered it, ends the loop with a normal return: no exception reaches the
\* caller.
C13_InterruptReturnsNormally ==
    (ret.op = "loop_exit" /\ ret.arg = "KeyboardInterrupt")
        => (ret.exc = "none" /\ consumer.state = "idle")

\* The delivery tags that await an acknowledgement on channel ch.
UnackedTags(cs, ch) == {cs[ch].unacked[i].tag : i \in 1..Len(cs[ch].unacked)}

HandledTags(c) == {c.handled[i] : i \in 1..Len(c.handled)}

\* C14: in a run, each delivery calls the handler once, under a delivery tag
\* the handler has not seen and has not acked in this run; a delivery the
\* handler neither acks nor nacks still awaits its acknowledgement (the
\* consumer acknowledges nothing itself); and only a handler's ack adds to the
\* acknowledged tags.
C14_HandlerOncePerDelivery ==
    [][/\ ret'.op = "deliver"
          => (/\ consumer'.handled
                   = Append(consumer.handled, chans'[adapter.channel].tag)
              /\ chans'[adapter.channel].tag \notin HandledTags(consumer)
              /\ chans'[adapter.channel].tag \notin consumer.acked
              /\ ret'.arg = "none"
                 => chans'[adapter.channel].tag
                       \in UnackedTags(chans', adapter.channel)
              /\ ret'.arg # "ack" => consumer'.acked = consumer.acked)
       /\ ret'.op # "deliver" => consumer'.acked \subseteq consumer.acked
      ]_vars

\* C14 witness: the handler acked a delivery and has been called with a later
\* one, which it left unacknowledged.
C14_Witness ==
    /\ ret.op = "deliver" /\ ret.arg = "none"
    /\ consumer.state = "consuming"
    /\ Len(consumer.handled) = 2
    /\ consumer.handled[1] \in consumer.acked
    /\ consumer.handled[2] \in UnackedTags(chans, adapter.channel)

\* The operations that open a channel on the adapter's connection as it is.
ChannelOpeners == TopologyOps \cup {"get_channel"}

\* C15: an operation that opens a channel on a closed connection raises
\* PikaUtilsError and creates no channel, and _prepare_channel_qos on a closed
\* channel raises PikaUtilsError and changes no prefetch setting; both leave
\* the program as it was.
C15_ClosedHandlesFailFast ==
    [][/\ (ret'.op \in ChannelOpeners /\ ~ConnectionOpen)
          => (/\ ret'.exc = "PikaUtilsError"
              /\ DOMAIN chans' = DOMAIN chans
              /\ UNCHANGED program)
       /\ (ret'.op = "_prepare_channel_qos" /\ ~IsOpen(World, adapter.channel))
          => (/\ ret'.exc = "PikaUtilsError"
              /\ \A c \in DOMAIN chans :
                    c \in DOMAIN chans' /\ chans'[c].prefetch = chans[c].prefetch
              /\ UNCHANGED program)
      ]_vars

\* C15 witness: _prepare_channel_qos has failed on the closed channel of an
\* open connection.
C15_Witness ==
    /\ ret.op = "_prepare_channel_qos" /\ ret.exc = "PikaUtilsError"
    /\ ConnectionOpen /\ ~IsOpen(World, adapter.channel)

\* The bodies of the frames in s, and of those the broker accepted.
Bodies(s) == [i \in 1..Len(s) |-> s[i].body]

Accepted(s) == Bodies(SelectSeq(s, LAMBDA f : f.accepted))

C17_CloseIsIdempotent ==
    [][/\ ret'.op = "_close_channel"
          => IF IsOpen(World, adapter.channel)
             THEN /\ ret'.exc = "none" /\ ret'.res = "True"
                  /\ adapter.channel \in DOMAIN chans'
                  /\ ~chans'[adapter.channel].open
             ELSE /\ ret'.exc = "none" /\ ret'.res = "False"
                  /\ UNCHANGED program
       /\ ret'.op = "_close_connection"
          => IF ConnectionOpen
             THEN /\ ret'.exc = "none" /\ ret'.res = "True"
                  /\ ~connOpen'[adapter.connection]
             ELSE /\ ret'.exc = "none" /\ ret'.res = "False"
                  /\ UNCHANGED program
       /\ (ret.op = "_close_channel" /\ ret'.op = "_close_connection")
          => (/\ ~connOpen'[adapter'.connection]
              /\ adapter'.channel \in DOMAIN chans'
              /\ ~chans'[adapter'.channel].open)
      ]_vars

\* C17 witness: _close_connection after _close_channel found the connection
\* closed already and reported False.
C17_Witness ==
    /\ ret.op = "_close_connection" /\ ret.res = "False" /\ ret.exc = "none"
    /\ ~ConnectionOpen /\ ~IsOpen(World, adapter.channel)

\* The two publish_message: the Publisher's method and the function.
PublishMessageOps == {"publish_message", "pika_utils.publish_message"}

\* C18: a publish_message call, whether it returns or raises, leaves no
\* channel open that was not open before it, and leaves the adapter and the
\* adapter's channel as they were.
C18_TransientChannelClosed ==
    [][ret'.op \in PublishMessageOps
          => (/\ {c \in DOMAIN chans' : chans'[c].open} \subseteq OpenChans(World)
              /\ adapter' = adapter
              /\ adapter.channel \in DOMAIN chans'
              /\ chans'[adapter.channel] = chans[adapter.channel])]_vars

\* C19: when the adapter's connection and channel are both open, the channel
\* is one opened on that connection; and connect() on an adapter whose
\* connection was closed leaves connection and channel open.
C19_ChannelOnCurrentConnection ==
    /\ (ConnectionOpen /\ IsOpen(World, adapter.channel))
          => chans[adapter.channel].conn = adapter.connection
    /\ (ret.op = "connect" /\ ~ret.connWasOpen)
          => (/\ ret.exc = "none"
              /\ ConnectionOpen
              /\ IsOpen(World, adapter.channel)
              /\ chans[adapter.channel].conn = adapter.connection)

\* C19 witness: connect() has replaced a closed connection and its channel.
C19_Witness ==
    /\ ret.op = "connect" /\ ~ret.connWasOpen
    /\ adapter.connection = 2
    /\ ConnectionOpen /\ IsOpen(World, adapter.channel)

\* C20: publish_message (module level) on an open connection with a payload
\* that is neither bytes nor a dict returns True, raises nothing, sends no
\* frame and leaves channels, broker and program as they were.
C20_UnsupportedPayloadReportsTrue ==
    [][(/\ ret'.op = "pika_utils.publish_message"
        /\ ret'.arg = "other"
        /\ ConnectionOpen)
          => (/\ ret'.exc = "none"
              /\ ret'.res = "True"
              /\ ret'.wire = <<>>
              /\ UNCHANGED program)]_vars

\* C20 witness: publish_message has returned True for such a payload on an
\* open connection.
C20_Witness ==
    /\ ret.op = "pika_utils.publish_message" /\ ret.arg = "other"
    /\ ret.res = "True" /\ ret.connWasOpen /\ ConnectionOpen

====
